---- MODULE Spec2Model ----
(***************************************************************************)
(* Model of the near-duplicate detection engine of YunMin-efficient-data:  *)
(* dedup/slimpajama_dedup.py (index, cluster, deduplicate),                *)
(* dedup/cluster_reduction.py (representative selection),                  *)
(* dedup/minhash_utils.py (shingling and the similarity estimator) and     *)
(* dedup/distributed_dedup.py (the Ray driver's map and reduce, whose      *)
(* workers open the LSH buckets of one Redis prefix).                      *)
(*                                                                         *)
(* A text is represented by what the code reads of it: its raw character   *)
(* length, the character length after preprocess_text, its number of       *)
(* whitespace-split tokens, the number of jamo symbols it decomposes to,   *)
(* and its MinHash signature cut into LSH bands (one key per band).  Two   *)
(* signatures are LSH candidates of each other iff they agree on a band.   *)
(* Document ids are the integers 0..n-1 (str(doc_id) of the code).         *)
(***************************************************************************)
EXTENDS Integers, Sequences, FiniteSets, TLC

VARIABLES
    documents,      \* the batch given to the pipeline (list of dicts)
    config,         \* the configuration dict
    redis_ok,       \* whether the Redis store answers
    lsh,            \* MinHashLSH buckets: set of <<band, key, doc_id>>
    minhashes,      \* doc_id -> signature (dict, insertion order = ascending id)
    redis_sigs,     \* doc ids whose signature was written to "<prefix>:sig:<id>"
    clusters,       \* list of sets of doc ids
    processed,      \* the visited set of find_duplicate_clusters
    probes,         \* the lsh.query calls of find_duplicate_clusters, in order
    deduplicated,   \* the kept list, as indices into documents
    stats,          \* the stats dict of deduplicate_documents
    pc,             \* index | cluster | dedup | done | failed | idle
    run,            \* 1: first run, 2: the pipeline run again on its own output
    input_docs,     \* the documents of the first run
    cluster_docs,   \* argument of select_representative_document
    strategy,       \* argument of select_representative_document
    rep_idx,        \* its result
    sel_pc,         \* call | returned | idle
    lines,          \* input lines of the Ray driver (a document or a blank line)
    chunk_size,     \* --chunk-size
    results,        \* chunk number -> result of its worker (or NotYet)
    deduped_docs,   \* documents written to the output file
    stats_total,    \* the summed stats written to the log csv
    store,          \* what the Redis store holds under the prefix: LSH buckets
    ray_pc,         \* map | written | failed | aborted | idle
    mr_results,     \* MapReduce driver: chunk number -> result of its worker
    mr_store,       \* the LSH buckets in Redis during the MapReduce driver's run
    mr_deduped_docs, \* what the MapReduce driver wrote to the output file
    mr_pc,          \* map | written | failed | idle
    util_op,        \* the function of minhash_utils that is called
    text_words,     \* tokenize_ngrams: the whitespace-separated words of the text
    text_chars,     \* tokenize_jamo_ngrams: the code points of the text
    ngram_n,        \* tokenize_ngrams: n
    ngrams,         \* tokenize_ngrams: the returned list of shingles
    digest1,        \* estimate_jaccard_similarity: minhash1.digest()
    digest2,        \* estimate_jaccard_similarity: minhash2.digest()
    similarity,     \* estimate_jaccard_similarity: what the call ended with
    util_pc         \* call | ended | idle

pipeVars == <<documents, config, redis_ok, lsh, minhashes, redis_sigs, clusters,
              processed, probes, deduplicated, stats, pc, run, input_docs>>
selVars == <<cluster_docs, strategy, rep_idx, sel_pc>>
rayVars == <<lines, chunk_size, results, store, deduped_docs, stats_total, ray_pc>>
utilVars == <<util_op, text_words, text_chars, ngram_n, ngrams, digest1, digest2, similarity, util_pc>>
mrVars == <<mr_results, mr_store, mr_deduped_docs, mr_pc>>
vars == <<pipeVars, selVars, rayVars, mrVars, utilVars>>

----------------------------------------------------------------------------
(* Bounds of the model *)

\* longest batch given to the pipeline
MaxDocs == 3
\* largest cluster given to select_representative_document
MaxCluster == 3
\* most input lines of the distributed driver
MaxLines == 3
\* largest number of words of a text given to tokenize_ngrams
MaxTokens == 5
\* largest number of permutations (length of a digest)
MaxPerm == 3
\* largest number of characters of a text given to tokenize_jamo_ngrams
MaxChars == 3
\* most documents of a batch that holds the same text twice
MaxTwinDocs == 4

(* Program constants *)

\* len(text.strip()) < 10: skip very short texts
MinTextLength == 10
\* len(combined) < 5: skip
MinShingleCount == 5
\* config.get('ngram_size', 5)
DefaultNgramSize == 5
\* config.get('jamo_ngram_size', 3)
DefaultJamoNgramSize == 3
\* minhash_utils.tokenize_ngrams: len(tokens) == 4
IbnidaTokenCount == 4
HangulFirst == 44032      \* 0xAC00
HangulLast == 55203       \* 0xD7A3
LeadBase == 4352          \* 0x1100
VowelBase == 4449         \* 0x1161
TailBase == 4519          \* 0x11A7
VowelTailCount == 588
TailCount == 28

(* Encodings of non-integer field values *)

\* doc.get(key) is None / key not in doc
Absent == -1
\* a 'tokens' value that is not a list; a timestamp no format parses
Malformed == -2

----------------------------------------------------------------------------
(* Input domains *)

\* signatures as band keys.  <<1,1>> ~ <<1,2>> ~ <<3,2>> ~ <<3,4>> is a chain of
\* band collisions that is not transitive: <<1,1>> and <<3,2>> share no band.
Signatures == {<<1, 1>>, <<1, 2>>, <<3, 2>>, <<3, 4>>}

\* The shapes of text a batch draws from.  rawlen: len(doc['text']); nchar: length
\* after preprocess_text; nwords: whitespace-split tokens; ibnida: the last token
\* ends with "ibnida" (U+C785 U+B2C8 U+B2E4); hangul: Hangul syllables; njamo: symbols the text decomposes to.
\*  - two words of 4 tail-less Hangul syllables: 9 characters, 17 jamo symbols
\*  - two ASCII words, 10 characters
\*  - three Hangul words, 10 tail-less syllables, 12 characters, one trailing space
TextShapes ==
    { [rawlen |-> 9, nchar |-> 9, nwords |-> 2, ibnida |-> FALSE,
       hangul |-> 8, njamo |-> 17],
      [rawlen |-> 10, nchar |-> 10, nwords |-> 2, ibnida |-> FALSE,
       hangul |-> 0, njamo |-> 10],
      [rawlen |-> 13, nchar |-> 12, nwords |-> 3, ibnida |-> FALSE,
       hangul |-> 10, njamo |-> 22] }

MkText(shape, sig) ==
    [rawlen |-> shape.rawlen, nchar |-> shape.nchar, nwords |-> shape.nwords,
     ibnida |-> shape.ibnida, hangul |-> shape.hangul, njamo |-> shape.njamo,
     sig |-> sig]

Texts == {MkText(s, g) : s \in TextShapes, g \in Signatures}

MkDoc(text, tokens, timestamp, source) ==
    [text |-> text, tokens |-> tokens, timestamp |-> timestamp, source |-> source]

\* documents of a batch: a text and no metadata
BatchDocs == {MkDoc(t, Absent, Absent, "") : t \in Texts}

Configs ==
    { [ngram_size |-> DefaultNgramSize, jamo_ngram_size |-> DefaultJamoNgramSize],
      [ngram_size |-> 3, jamo_ngram_size |-> 8] }

SeqsUpTo(S, n) == UNION {[1..k -> S] : k \in 0..n}

----------------------------------------------------------------------------
(* dedup/cluster_reduction.py *)

\* 'tokens' in doc and isinstance(doc['tokens'], list)
HasTokenList(doc) == doc.tokens >= 0

\* the length _select_longest_document compares
DocLength(doc) == IF HasTokenList(doc) THEN doc.tokens ELSE doc.text.rawlen

\* Mutant of LongestLoop: length >= max_length, so that the last of a tie wins
RECURSIVE LongestLoop_LastWins(_, _, _, _)
LongestLoop_LastWins(docs, idx, max_length, best_idx) ==
    IF idx >= Len(docs) THEN best_idx
    ELSE LET length == DocLength(docs[idx + 1])
         IN IF length >= max_length
            THEN LongestLoop_LastWins(docs, idx + 1, length, idx)
            ELSE LongestLoop_LastWins(docs, idx + 1, max_length, best_idx)

RECURSIVE LongestLoop(_, _, _, _)
LongestLoop(docs, idx, max_length, best_idx) ==
    IF idx >= Len(docs) THEN best_idx
    ELSE LET length == DocLength(docs[idx + 1])
         IN IF length > max_length
            THEN LongestLoop(docs, idx + 1, length, idx)
            ELSE LongestLoop(docs, idx + 1, max_length, best_idx)

_select_longest_document(docs) == LongestLoop(docs, 0, 0, 0)

\* a timestamp that one of the formats, or datetime.fromtimestamp, parses
Parseable(timestamp) == timestamp >= 0

\* newest_time is Absent (None) until a timestamp has been parsed
RECURSIVE NewestLoop(_, _, _, _)
NewestLoop(docs, idx, newest_time, best_idx) ==
    IF idx >= Len(docs)
    THEN [newest_time |-> newest_time, best_idx |-> best_idx]
    ELSE LET timestamp == docs[idx + 1].timestamp
         IN IF timestamp = Absent \/ ~Parseable(timestamp)
            THEN NewestLoop(docs, idx + 1, newest_time, best_idx)
            ELSE IF newest_time = Absent \/ timestamp > newest_time
                 THEN NewestLoop(docs, idx + 1, timestamp, idx)
                 ELSE NewestLoop(docs, idx + 1, newest_time, best_idx)

\* Mutant of _select_newest_document: no fallback to longest
_select_newest_document_NoFallback(docs) ==
    NewestLoop(docs, 0, Absent, 0).best_idx

_select_newest_document(docs) ==
    LET r == NewestLoop(docs, 0, Absent, 0)
    IN IF r.newest_time = Absent THEN _select_longest_document(docs) ELSE r.best_idx

\* source_scores[source_type] * 0.2 for the first source_type contained in
\* doc.get('source', '').lower(), 0.1 when there is none; in units of 1/10000
SourceScore(source) ==
    CASE source = "wikipedia" -> 1800
      [] source = "news" -> 1600
      [] source = "forum" -> 400
      [] OTHER -> 1000

\* _calculate_quality_score as the fraction num/den of 1/10000 units.  The texts
\* of the model hold no sentence terminator ('.', '!', '?'), so the average
\* sentence length is the text length, and at most 10 words, so the word
\* diversity bonus (len(words) > 10) is not applied.  Of the metadata fields
\* source, domain, lang, tokens the documents carry source and tokens.
_calculate_quality_score(doc) ==
    LET text_length == doc.text.rawlen
        den == IF text_length > 1 THEN text_length ELSE 1
        length_part == 3 * (IF text_length < 1000 THEN text_length ELSE 1000)
        sentence_part == IF text_length = 0 THEN 0
                         ELSE IF 20 <= text_length /\ text_length <= 100 THEN 2000
                         ELSE IF 10 <= text_length /\ text_length <= 150 THEN 1000
                         ELSE 0
        korean_num == IF text_length = 0 THEN 0 ELSE 2000 * doc.text.hangul
        completeness == (IF doc.source # "" THEN 1 ELSE 0)
                        + (IF doc.tokens > 0 \/ doc.tokens = Malformed THEN 1 ELSE 0)
        whole == length_part + SourceScore(doc.source) + sentence_part
                 + 250 * completeness
    IN [num |-> whole * den + korean_num, den |-> den]

\* score > best_score
ScoreGreater(a, b) == a.num * b.den > b.num * a.den

RECURSIVE QualityLoop(_, _, _, _)
QualityLoop(docs, idx, best_score, best_idx) ==
    IF idx >= Len(docs) THEN best_idx
    ELSE LET score == _calculate_quality_score(docs[idx + 1])
         IN IF ScoreGreater(score, best_score)
            THEN QualityLoop(docs, idx + 1, score, idx)
            ELSE QualityLoop(docs, idx + 1, best_score, best_idx)

_select_highest_quality_document(docs) ==
    QualityLoop(docs, 0, [num |-> -1, den |-> 1], 0)

\* Mutant of select_representative_document: an unknown strategy falls back to
\* highest_quality
select_representative_document_QualityFallback(docs, strat) ==
    IF docs = <<>> THEN 0
    ELSE IF Len(docs) = 1 THEN 0
    ELSE IF strat = "longest" THEN _select_longest_document(docs)
    ELSE IF strat = "newest" THEN _select_newest_document(docs)
    ELSE _select_highest_quality_document(docs)

select_representative_document(docs, strat) ==
    IF docs = <<>> THEN 0
    ELSE IF Len(docs) = 1 THEN 0
    ELSE IF strat = "longest" THEN _select_longest_document(docs)
    ELSE IF strat = "newest" THEN _select_newest_document(docs)
    ELSE IF strat = "highest_quality" THEN _select_highest_quality_document(docs)
    ELSE _select_longest_document(docs)

----------------------------------------------------------------------------
(* dedup/minhash_utils.py: the number of shingles the tokenizers return *)

\* len(tokenize_ngrams(text, n))
LenWordNgrams(text, n) ==
    LET tokens == IF text.nwords = 4 /\ text.ibnida THEN 5 ELSE text.nwords
    IN IF tokens < n THEN 1 ELSE tokens - n + 1

\* len(tokenize_jamo_ngrams(text, n))
LenJamoNgrams(text, n) ==
    IF text.njamo < n THEN 1 ELSE text.njamo - n + 1

\* create_minhash(combined, num_perm): the signature of the text's shingles
create_minhash(doc) == doc.text.sig

\* the words of a text: "A" lower-cases to "a", "ibnida" stands for a word that
\* ends with the three syllables U+C785 U+B2C8 U+B2E4
Words == {"A", "a", "b", "ibnida"}

\* str.lower() on one word
Lower(word) == IF word = "A" THEN "a" ELSE word

\* tokens[-1].endswith(...)
EndsWithIbnida(token) == token = "ibnida"

\* tokenize_ngrams(text, n); a shingle ' '.join(tokens[i:i + n]) is represented
\* by the sequence of its tokens (no token holds a space, so the join is injective)
tokenize_ngrams(text, n) ==
    LET split == [i \in 1..Len(text) |-> Lower(text[i])]
        tokens == IF Len(split) = IbnidaTokenCount /\ EndsWithIbnida(split[Len(split)])
                  THEN Append(split, split[Len(split)])
                  ELSE split
    IN IF Len(tokens) < n
       THEN <<tokens>>
       ELSE [i \in 1..(Len(tokens) - n + 1) |-> SubSeq(tokens, i, i + n - 1)]

\* the characters of a text, by code point: "A", the jamo U+1100, the code
\* points around the two ends of the Hangul syllable block, and syllables
\* without a tail (U+AC00, U+AC1C, U+B098) and with one (U+AC01, U+D55C, U+D7A3)
Chars == {65, 4352, 44031, 44032, 44033, 44060, 45208, 54620, 55203, 55204}

\* the loop body of tokenize_jamo_ngrams, with a tail appended for every syllable
JamoOfChar_AlwaysTail(code) ==
    IF HangulFirst <= code /\ code <= HangulLast
    THEN LET syllable_index == code - HangulFirst
             lead == LeadBase + (syllable_index \div VowelTailCount)
             vowel == VowelBase + ((syllable_index % VowelTailCount) \div TailCount)
             tail_index == syllable_index % TailCount
         IN <<lead, vowel, TailBase + tail_index>>
    ELSE <<code>>

\* the loop body of tokenize_jamo_ngrams: what one character appends to jamo_chars
JamoOfChar(code) ==
    IF HangulFirst <= code /\ code <= HangulLast
    THEN LET syllable_index == code - HangulFirst
             lead == LeadBase + (syllable_index \div VowelTailCount)
             vowel == VowelBase + ((syllable_index % VowelTailCount) \div TailCount)
             tail_index == syllable_index % TailCount
         IN IF tail_index # 0
            THEN <<lead, vowel, TailBase + tail_index>>
            ELSE <<lead, vowel>>
    ELSE <<code>>

\* jamo_chars after the loop over the characters text[1..k]
RECURSIVE JamoChars(_, _)
JamoChars(text, k) ==
    IF k = 0 THEN <<>> ELSE JamoChars(text, k - 1) \o JamoOfChar(text[k])

\* tokenize_jamo_ngrams(text, n); a shingle ''.join(jamo_chars[i:i + n]) is
\* represented by the sequence of its code points
tokenize_jamo_ngrams(text, n) ==
    LET jamo_chars == JamoChars(text, Len(text))
    IN IF Len(jamo_chars) < n
       THEN <<jamo_chars>>
       ELSE [i \in 1..(Len(jamo_chars) - n + 1) |-> SubSeq(jamo_chars, i, i + n - 1)]

\* a digest: the list of the fallback MinHash class, or the numpy array of
\* datasketch.MinHash.digest()
Digests ==
    {[kind |-> k, values |-> v] : k \in {"list", "ndarray"}, v \in SeqsUpTo({0, 7}, MaxPerm)}

\* how a call of estimate_jaccard_similarity ends: a similarity num/den, or an
\* exception and no value (den = 0)
Returns(num, den) == [raised |-> "none", num |-> num, den |-> den]
Raises(exception) == [raised |-> exception, num |-> 0, den |-> 0]

\* bool(digest1), the condition of the conditional expression: a list is true
\* iff it is not empty; a numpy array of more than one element has no truth
\* value (ValueError), one of a single element has the truth value of the
\* element, and an empty one is false or, in numpy 2.2 and later, an error
Truth(digest) ==
    IF digest.kind = "list"
    THEN {IF Len(digest.values) > 0 THEN "True" ELSE "False"}
    ELSE IF Len(digest.values) > 1 THEN {"ValueError"}
    ELSE IF Len(digest.values) = 1
         THEN {IF digest.values[1] # 0 THEN "True" ELSE "False"}
         ELSE {"False", "ValueError"}

Matches(d1, d2) ==
    Cardinality({i \in 1..Len(d1.values) : i <= Len(d2.values) /\ d1.values[i] = d2.values[i]})

\* Mutant of estimate_jaccard_similarity: the length check is missing
estimate_jaccard_similarity_NoSizeCheck(d1, d2) ==
    {IF t = "ValueError" THEN Raises("ambiguous_truth")
     ELSE IF t = "True" THEN Returns(Matches(d1, d2), Len(d1.values))
     ELSE Returns(0, 1) : t \in Truth(d1)}

\* estimate_jaccard_similarity(minhash1, minhash2): the set of ways the call can end
estimate_jaccard_similarity(d1, d2) ==
    IF Len(d1.values) # Len(d2.values)
    THEN {Raises("size_mismatch")}
    ELSE {IF t = "ValueError" THEN Raises("ambiguous_truth")
          ELSE IF t = "True" THEN Returns(Matches(d1, d2), Len(d1.values))
          ELSE Returns(0, 1) : t \in Truth(d1)}

----------------------------------------------------------------------------
(* MinHashLSH: one bucket per band and key *)

Bands(sig) == 1..Len(sig)

lsh_insert(index, key, sig) == index \cup {<<b, sig[b], key>> : b \in Bands(sig)}

\* the keys of the index
lsh_keys(index) == {e[3] : e \in index}

\* Mutant of lsh_query: only the first band is looked up
lsh_query_FirstBand(index, sig) ==
    {e[3] : e \in {x \in index : x[1] = 1 /\ x[2] = sig[1]}}

lsh_query(index, sig) ==
    {e[3] : e \in {x \in index : x[1] \in Bands(sig) /\ x[2] = sig[x[1]]}}

----------------------------------------------------------------------------
(* dedup/slimpajama_dedup.py *)

\* len(combined)
LenCombined(doc, cfg) ==
    LenWordNgrams(doc.text, cfg.ngram_size) + LenJamoNgrams(doc.text, cfg.jamo_ngram_size)

\* Mutant of Indexed: the check of the shingle count is missing
Indexed_LengthOnly(doc, cfg) == ~(doc.text.nchar < MinTextLength)

\* Mutant of Indexed: the check of the text length is missing
Indexed_ShinglesOnly(doc, cfg) == ~(LenCombined(doc, cfg) < MinShingleCount)

\* the documents the loop of build_minhash_index does not skip
Indexed(doc, cfg) ==
    /\ ~(doc.text.nchar < MinTextLength)
    /\ ~(LenCombined(doc, cfg) < MinShingleCount)

\* lsh.insert(key, minhash) raises ValueError when the key is already in the
\* index (check_duplication); the entries inserted before stay in the store
RECURSIVE IndexLoop(_, _, _, _)
IndexLoop(docs, cfg, doc_id, acc) ==
    IF doc_id >= Len(docs) THEN acc
    ELSE LET doc == docs[doc_id + 1]
         IN IF ~Indexed(doc, cfg)
            THEN IndexLoop(docs, cfg, doc_id + 1, acc)
            ELSE IF doc_id \in lsh_keys(acc.lsh)
                 THEN [acc EXCEPT !.ok = FALSE]
                 ELSE LET minhash == create_minhash(doc)
                      IN IndexLoop(docs, cfg, doc_id + 1,
                             [ok |-> TRUE,
                              lsh |-> lsh_insert(acc.lsh, doc_id, minhash),
                              minhashes |-> (doc_id :> minhash) @@ acc.minhashes,
                              redis_sigs |-> acc.redis_sigs \cup {doc_id}])

\* index is what the store holds under the configured prefix when the call
\* starts: MinHashLSH(storage_config) with a basename opens those buckets.
\* lsh.insert and redis_client.set raise when the store does not answer, and
\* nothing catches it: the first document that is not skipped ends the call
build_minhash_index(index, docs, cfg, store_ok) ==
    IF ~store_ok /\ \E i \in 1..Len(docs) : Indexed(docs[i], cfg)
    THEN [ok |-> FALSE, lsh |-> index, minhashes |-> <<>>, redis_sigs |-> {}]
    ELSE IndexLoop(docs, cfg, 0,
                   [ok |-> TRUE, lsh |-> index, minhashes |-> <<>>, redis_sigs |-> {}])

\* minhashes.keys(): insertion order, which is ascending doc id
RECURSIVE KeysInOrder(_)
KeysInOrder(S) ==
    IF S = {} THEN <<>>
    ELSE LET m == CHOOSE x \in S : \A y \in S : x <= y
         IN <<m>> \o KeysInOrder(S \ {m})

\* Mutant of ClusterLoop: only the probe is marked processed, not its candidates
RECURSIVE ClusterLoop_ProbeOnly(_, _, _, _, _, _)
ClusterLoop_ProbeOnly(index, sigs, keys, cls, done, asked) ==
    IF keys = <<>> THEN [clusters |-> cls, processed |-> done, probes |-> asked]
    ELSE LET doc_id == Head(keys)
         IN IF doc_id \in done
            THEN ClusterLoop_ProbeOnly(index, sigs, Tail(keys), cls, done, asked)
            ELSE LET candidates == lsh_query(index, sigs[doc_id])
                     probe == [doc_id |-> doc_id, candidates |-> candidates]
                 IN IF Cardinality(candidates) > 1
                    THEN ClusterLoop_ProbeOnly(index, sigs, Tail(keys), Append(cls, candidates),
                             done \cup {doc_id}, Append(asked, probe))
                    ELSE ClusterLoop_ProbeOnly(index, sigs, Tail(keys), cls,
                             done \cup {doc_id}, Append(asked, probe))

\* Mutant of ClusterLoop: 'if doc_id in processed: continue' is missing
RECURSIVE ClusterLoop_NoSkip(_, _, _, _, _, _)
ClusterLoop_NoSkip(index, sigs, keys, cls, done, asked) ==
    IF keys = <<>> THEN [clusters |-> cls, processed |-> done, probes |-> asked]
    ELSE LET doc_id == Head(keys)
         IN IF FALSE
            THEN ClusterLoop_NoSkip(index, sigs, Tail(keys), cls, done, asked)
            ELSE LET candidates == lsh_query(index, sigs[doc_id])
                     probe == [doc_id |-> doc_id, candidates |-> candidates]
                 IN IF Cardinality(candidates) > 1
                    THEN ClusterLoop_NoSkip(index, sigs, Tail(keys), Append(cls, candidates),
                             done \cup candidates, Append(asked, probe))
                    ELSE ClusterLoop_NoSkip(index, sigs, Tail(keys), cls,
                             done \cup {doc_id}, Append(asked, probe))

\* Mutant of ClusterLoop: the cluster is the candidates other than the probe
RECURSIVE ClusterLoop_WithoutProbe(_, _, _, _, _, _)
ClusterLoop_WithoutProbe(index, sigs, keys, cls, done, asked) ==
    IF keys = <<>> THEN [clusters |-> cls, processed |-> done, probes |-> asked]
    ELSE LET doc_id == Head(keys)
         IN IF doc_id \in done
            THEN ClusterLoop_WithoutProbe(index, sigs, Tail(keys), cls, done, asked)
            ELSE LET candidates == lsh_query(index, sigs[doc_id])
                     probe == [doc_id |-> doc_id, candidates |-> candidates]
                 IN IF Cardinality(candidates) > 1
                    THEN ClusterLoop_WithoutProbe(index, sigs, Tail(keys),
                             Append(cls, candidates \ {doc_id}),
                             done \cup candidates, Append(asked, probe))
                    ELSE ClusterLoop_WithoutProbe(index, sigs, Tail(keys), cls,
                             done \cup {doc_id}, Append(asked, probe))

\* for doc_id in minhashes.keys(); asked records each lsh.query with its answer
RECURSIVE ClusterLoop(_, _, _, _, _, _)
ClusterLoop(index, sigs, keys, cls, done, asked) ==
    IF keys = <<>> THEN [clusters |-> cls, processed |-> done, probes |-> asked]
    ELSE LET doc_id == Head(keys)
         IN IF doc_id \in done
            THEN ClusterLoop(index, sigs, Tail(keys), cls, done, asked)
            ELSE LET candidates == lsh_query(index, sigs[doc_id])
                     probe == [doc_id |-> doc_id, candidates |-> candidates]
                 IN IF Cardinality(candidates) > 1
                    THEN ClusterLoop(index, sigs, Tail(keys), Append(cls, candidates),
                             done \cup candidates, Append(asked, probe))
                    ELSE ClusterLoop(index, sigs, Tail(keys), cls,
                             done \cup {doc_id}, Append(asked, probe))

\* Mutant of find_duplicate_clusters: a cluster needs more than two candidates
RECURSIVE ClusterLoop_OverTwo(_, _, _, _, _, _)
ClusterLoop_OverTwo(index, sigs, keys, cls, done, asked) ==
    IF keys = <<>> THEN [clusters |-> cls, processed |-> done, probes |-> asked]
    ELSE LET doc_id == Head(keys)
         IN IF doc_id \in done
            THEN ClusterLoop_OverTwo(index, sigs, Tail(keys), cls, done, asked)
            ELSE LET candidates == lsh_query(index, sigs[doc_id])
                     probe == [doc_id |-> doc_id, candidates |-> candidates]
                 IN IF Cardinality(candidates) > 2
                    THEN ClusterLoop_OverTwo(index, sigs, Tail(keys), Append(cls, candidates),
                             done \cup candidates, Append(asked, probe))
                    ELSE ClusterLoop_OverTwo(index, sigs, Tail(keys), cls,
                             done \cup {doc_id}, Append(asked, probe))

find_duplicate_clusters_OverTwo(index, sigs) ==
    ClusterLoop_OverTwo(index, sigs, KeysInOrder(DOMAIN sigs), <<>>, {}, <<>>)

find_duplicate_clusters(index, sigs) ==
    ClusterLoop(index, sigs, KeysInOrder(DOMAIN sigs), <<>>, {}, <<>>)

\* the orders in which a Python set of ids may be iterated
Perms(S) ==
    {f \in [1..Cardinality(S) -> S] : \A i, j \in DOMAIN f : i # j => f[i] # f[j]}

RECURSIVE IterationOrders(_)
IterationOrders(cls) ==
    IF cls = <<>> THEN {<<>>}
    ELSE {<<p>> \o rest : p \in Perms(Head(cls)), rest \in IterationOrders(Tail(cls))}

\* doc_to_cluster: the last cluster (0-based) that holds the id
doc_to_cluster(cls) ==
    [id \in UNION {cls[c] : c \in DOMAIN cls} |->
        (CHOOSE c \in DOMAIN cls :
            id \in cls[c] /\ \A d \in DOMAIN cls : id \in cls[d] => d <= c) - 1]

\* [int(doc_id) for doc_id in cluster if int(doc_id) < len(documents)]
OriginalIndices(docs, order) == SelectSeq(order, LAMBDA id : id < Len(docs))

\* the index added to representatives for one cluster, iterated in this order
Representative(docs, order) ==
    LET original_indices == OriginalIndices(docs, order)
        members == [j \in DOMAIN original_indices |-> docs[original_indices[j] + 1]]
    IN original_indices[select_representative_document(members, "longest") + 1]

\* Mutant of representatives: only the last cluster contributes its representative
representatives_LastCluster(docs, orders) ==
    {Representative(docs, orders[c]) :
        c \in {d \in DOMAIN orders : d = Len(orders) /\ OriginalIndices(docs, orders[d]) # <<>>}}

representatives(docs, orders) ==
    {Representative(docs, orders[c]) :
        c \in {d \in DOMAIN orders : OriginalIndices(docs, orders[d]) # <<>>}}

\* Mutant of AssembleLoop: a representative is put at the front of the kept list
RECURSIVE AssembleLoop_RepresentativeFirst(_, _, _, _, _)
AssembleLoop_RepresentativeFirst(docs, in_cluster, reps, idx, acc) ==
    IF idx >= Len(docs) THEN acc
    ELSE IF idx \in in_cluster
         THEN IF idx \in reps
              THEN AssembleLoop_RepresentativeFirst(docs, in_cluster, reps, idx + 1,
                       [acc EXCEPT !.deduplicated = <<idx>> \o @])
              ELSE AssembleLoop_RepresentativeFirst(docs, in_cluster, reps, idx + 1,
                       [acc EXCEPT !.removed_count = @ + 1])
         ELSE AssembleLoop_RepresentativeFirst(docs, in_cluster, reps, idx + 1,
                  [acc EXCEPT !.deduplicated = Append(@, idx)])

\* Mutant of AssembleLoop: every document of a cluster counts as removed
RECURSIVE AssembleLoop_CountsClustered(_, _, _, _, _)
AssembleLoop_CountsClustered(docs, in_cluster, reps, idx, acc) ==
    IF idx >= Len(docs) THEN acc
    ELSE IF idx \in in_cluster
         THEN AssembleLoop_CountsClustered(docs, in_cluster, reps, idx + 1,
                  [deduplicated |-> IF idx \in reps THEN Append(acc.deduplicated, idx)
                                    ELSE acc.deduplicated,
                   removed_count |-> acc.removed_count + 1])
         ELSE AssembleLoop_CountsClustered(docs, in_cluster, reps, idx + 1,
                  [acc EXCEPT !.deduplicated = Append(@, idx)])

RECURSIVE AssembleLoop(_, _, _, _, _)
AssembleLoop(docs, in_cluster, reps, idx, acc) ==
    IF idx >= Len(docs) THEN acc
    ELSE IF idx \in in_cluster
         THEN IF idx \in reps
              THEN AssembleLoop(docs, in_cluster, reps, idx + 1,
                       [acc EXCEPT !.deduplicated = Append(@, idx)])
              ELSE AssembleLoop(docs, in_cluster, reps, idx + 1,
                       [acc EXCEPT !.removed_count = @ + 1])
         ELSE AssembleLoop(docs, in_cluster, reps, idx + 1,
                  [acc EXCEPT !.deduplicated = Append(@, idx)])

\* Mutant of DeduplicationRate: the guard against an empty batch is missing
DeduplicationRate_Unguarded(removed_count, original_count) ==
    [num |-> removed_count, den |-> original_count]

\* removed_count / len(documents) if documents else 0, as a fraction
DeduplicationRate(removed_count, original_count) ==
    IF original_count # 0
    THEN [num |-> removed_count, den |-> original_count]
    ELSE [num |-> 0, den |-> 1]

deduplicate_documents(docs, cls, orders) ==
    LET kept == AssembleLoop(docs, DOMAIN doc_to_cluster(cls),
                             representatives(docs, orders), 0,
                             [deduplicated |-> <<>>, removed_count |-> 0])
    IN [deduplicated |-> kept.deduplicated,
        stats |-> [original_count |-> Len(docs),
                   deduplicated_count |-> Len(kept.deduplicated),
                   removed_count |-> kept.removed_count,
                   duplicate_clusters |-> Len(cls),
                   deduplication_rate |->
                       DeduplicationRate(kept.removed_count, Len(docs))]]

\* the documents a kept list of indices stands for
DocsAt(docs, indices) == [j \in DOMAIN indices |-> docs[indices[j] + 1]]

NoStats == [original_count |-> 0, deduplicated_count |-> 0, removed_count |-> 0,
            duplicate_clusters |-> 0, deduplication_rate |-> [num |-> 0, den |-> 1]]

----------------------------------------------------------------------------
(* The pipeline of main(): index, cluster, deduplicate *)

SelIdle ==
    /\ cluster_docs = <<>> /\ strategy = "longest" /\ rep_idx = 0 /\ sel_pc = "idle"

UtilIdle ==
    /\ util_op = "none" /\ text_words = <<>> /\ text_chars = <<>>
    /\ ngram_n = 1 /\ ngrams = <<>>
    /\ digest1 = [kind |-> "list", values |-> <<>>]
    /\ digest2 = [kind |-> "list", values |-> <<>>]
    /\ similarity = Raises("none") /\ util_pc = "idle"

MrIdle ==
    /\ mr_results = <<>> /\ mr_store = {} /\ mr_deduped_docs = <<>> /\ mr_pc = "idle"

RayIdle ==
    /\ lines = <<>> /\ chunk_size = 1 /\ results = <<>> /\ store = {}
    /\ deduped_docs = <<>>
    /\ stats_total = NoStats /\ ray_pc = "idle"

PipeStart(docs, cfg, ok, r, first) ==
    /\ documents = docs /\ config = cfg /\ redis_ok = ok
    /\ lsh = {} /\ minhashes = <<>> /\ redis_sigs = {}
    /\ clusters = <<>> /\ processed = {} /\ probes = <<>>
    /\ deduplicated = <<>> /\ stats = NoStats
    /\ pc = "index" /\ run = r /\ input_docs = first

Init ==
    /\ \E docs \in SeqsUpTo(BatchDocs, MaxDocs), cfg \in Configs, ok \in BOOLEAN :
          PipeStart(docs, cfg, ok, 1, docs)
    /\ SelIdle
    /\ RayIdle
    /\ MrIdle
    /\ UtilIdle

BuildMinhashIndex ==
    /\ pc = "index"
    /\ LET r == build_minhash_index(lsh, documents, config, redis_ok)
       IN /\ lsh' = r.lsh
          /\ minhashes' = r.minhashes
          /\ redis_sigs' = r.redis_sigs
          /\ pc' = IF r.ok THEN "cluster" ELSE "failed"
    /\ UNCHANGED <<documents, config, redis_ok, clusters, processed, probes, deduplicated,
                   stats, run, input_docs, selVars, rayVars, utilVars,
                   mrVars>>

FindDuplicateClusters ==
    /\ pc = "cluster"
    /\ LET r == find_duplicate_clusters(lsh, minhashes)
       IN /\ clusters' = r.clusters
          /\ processed' = r.processed
          /\ probes' = r.probes
    /\ pc' = "dedup"
    /\ UNCHANGED <<documents, config, redis_ok, lsh, minhashes, redis_sigs,
                   deduplicated, stats, run, input_docs, selVars, rayVars, utilVars,
                   mrVars>>

DeduplicateDocuments ==
    /\ pc = "dedup"
    /\ \E orders \in IterationOrders(clusters) :
          LET r == deduplicate_documents(documents, clusters, orders)
          IN /\ deduplicated' = r.deduplicated
             /\ stats' = r.stats
    /\ pc' = "done"
    /\ UNCHANGED <<documents, config, redis_ok, lsh, minhashes, redis_sigs, clusters,
                   processed, probes, run, input_docs, selVars, rayVars, utilVars,
                   mrVars>>

\* main() once more, on the documents the first run wrote, with the same
\* configuration and an empty index
RunAgain ==
    /\ pc = "done" /\ run = 1
    /\ documents' = DocsAt(documents, deduplicated)
    /\ lsh' = {} /\ minhashes' = <<>> /\ redis_sigs' = {}
    /\ clusters' = <<>> /\ processed' = {} /\ probes' = <<>>
    /\ deduplicated' = <<>> /\ stats' = NoStats
    /\ pc' = "index" /\ run' = 2
    /\ UNCHANGED <<config, redis_ok, input_docs, selVars, rayVars, utilVars,
                   mrVars>>

Next == BuildMinhashIndex \/ FindDuplicateClusters \/ DeduplicateDocuments \/ RunAgain

Spec == Init /\ [][Next]_vars

----------------------------------------------------------------------------
(* Properties of the pipeline *)

Range(f) == {f[i] : i \in DOMAIN f}

\* the ids that are in some cluster
Clustered == UNION Range(clusters)

\* two signatures fall into a common bucket
Collide(sig1, sig2) == \E b \in Bands(sig1) : sig1[b] = sig2[b]

\* the ids of the documents kept
Kept == Range(deduplicated)

Ids == 0..(Len(documents) - 1)

\* C1: in the list of clusters every document id appears in at most one cluster
\* (the clusters are pairwise disjoint).
C1_ClustersDisjoint ==
    \A c, d \in DOMAIN clusters : c # d => clusters[c] \cap clusters[d] = {}

\* C2: every document that is in no cluster is kept, and of each cluster exactly
\* one member is kept and all its other members are dropped.
C2_OneKeptPerCluster ==
    pc = "done" =>
        /\ \A i \in Ids : i \notin Clustered => i \in Kept
        /\ \A c \in DOMAIN clusters : Cardinality(clusters[c] \cap Kept) = 1

TransitiveCollisions(docs, cfg) ==
    \A i, j, k \in DOMAIN docs :
        (/\ Indexed(docs[i], cfg) /\ Indexed(docs[j], cfg) /\ Indexed(docs[k], cfg)
         /\ Collide(docs[i].text.sig, docs[j].text.sig)
         /\ Collide(docs[j].text.sig, docs[k].text.sig))
        => Collide(docs[i].text.sig, docs[k].text.sig)

\* the second run found no cluster and kept every document it was given
SecondRunUnchanged ==
    /\ clusters = <<>>
    /\ DocsAt(documents, deduplicated) = documents

ScenarioBatch ==
    /\ Len(documents) = 3
    /\ documents[1].text = documents[2].text
    /\ Indexed(documents[1], config)
    /\ ~(Indexed(documents[3], config)
         /\ Collide(documents[3].text.sig, documents[1].text.sig))

\* C5: on such a batch the pipeline yields exactly one cluster, of the ids of the
\* first two documents, keeps 2 documents including the third, and reports
\* removed_count 1 and deduplication_rate 1/3.
C5_EndToEndScenario ==
    (pc = "done" /\ run = 1 /\ ScenarioBatch) =>
        /\ clusters = <<{0, 1}>>
        /\ Len(deduplicated) = 2
        /\ 2 \in Kept
        /\ Cardinality({0, 1} \cap Kept) = 1
        /\ stats.removed_count = 1
        /\ stats.deduplication_rate.num * 3 = stats.deduplication_rate.den * 1

\* C5 witness: the scenario has run to its end, the third document being indexed.
C5_Witness ==
    /\ pc = "done" /\ run = 1 /\ ScenarioBatch
    /\ Indexed(documents[3], config)

\* C6: original_count is the number of input documents, deduplicated_count the
\* number of kept documents, removed_count their difference, duplicate_clusters
\* the number of clusters, and deduplication_rate is removed_count /
\* original_count and lies between 0 and 1.
C6_StatsConsistent ==
    pc = "done" =>
        /\ stats.original_count = Len(documents)
        /\ stats.deduplicated_count = Len(deduplicated)
        /\ stats.removed_count = stats.original_count - stats.deduplicated_count
        /\ stats.duplicate_clusters = Len(clusters)
        /\ stats.original_count > 0 =>
              stats.deduplication_rate.num * stats.original_count
                  = stats.removed_count * stats.deduplication_rate.den
        /\ stats.deduplication_rate.den > 0
        /\ 0 <= stats.deduplication_rate.num
        /\ stats.deduplication_rate.num <= stats.deduplication_rate.den

\* C6 witness: a run has finished that removed documents and kept others.
C6_Witness ==
    /\ pc = "done"
    /\ stats.removed_count > 0
    /\ stats.deduplicated_count > 0
    /\ stats.duplicate_clusters > 1

\* the ids marked visited before probe number j is made: the earlier probes and
\* the members of the clusters they created
VisitedBefore(j) ==
    UNION {IF Cardinality(probes[i].candidates) > 1
           THEN probes[i].candidates \cup {probes[i].doc_id}
           ELSE {probes[i].doc_id} : i \in 1..(j - 1)}

\* C20: the clustering pass ends having considered the indexed ids in ascending
\* order: the probes are indexed ids in strictly ascending order (each id at
\* most once), no probe is an id that was visited before it, and at the end
\* every indexed id is marked visited.
C20_ProbesAscendingOnceUnvisited ==
    pc \in {"dedup", "done"} =>
        /\ \A j \in DOMAIN probes : probes[j].doc_id \in DOMAIN minhashes
        /\ \A i, j \in DOMAIN probes : i < j => probes[i].doc_id < probes[j].doc_id
        /\ \A j \in DOMAIN probes : probes[j].doc_id \notin VisitedBefore(j)
        /\ DOMAIN minhashes \subseteq processed
        /\ \A id \in DOMAIN minhashes :
              (\E j \in DOMAIN probes : probes[j].doc_id = id)
                  \/ (\E j \in DOMAIN probes : id \in VisitedBefore(j + 1))

\* C20 witness: the pass has ended after probing an id that created a cluster,
\* skipping a member of that cluster, and probing a later id that is a singleton.
C20_Witness ==
    /\ pc = "dedup"
    /\ Len(probes) >= 2
    /\ Cardinality(probes[1].candidates) > 1
    /\ \E id \in DOMAIN minhashes : \A j \in DOMAIN probes : probes[j].doc_id # id
    /\ \E j \in DOMAIN probes : j > 1 /\ Cardinality(probes[j].candidates) = 1

\* the probes whose candidate set holds more than the probe itself
CreatingProbes == SelectSeq(probes, LAMBDA p : p.candidates # {p.doc_id})

\* C21: every cluster of find_duplicate_clusters is the candidate set of the probe
\* that created it, holds that probe's id and has at least two members; a probe
\* whose candidate set is only itself creates no cluster (the clusters are, in
\* order, those of the probes with other candidates).
C21_ClusterIsCandidateSet ==
    pc \in {"dedup", "done"} =>
        /\ Len(clusters) = Len(CreatingProbes)
        /\ \A k \in DOMAIN clusters :
              k \in DOMAIN CreatingProbes =>
                 /\ clusters[k] = lsh_query(lsh, minhashes[CreatingProbes[k].doc_id])
                 /\ CreatingProbes[k].doc_id \in clusters[k]
                 /\ Cardinality(clusters[k]) >= 2

\* C21 witness: the pass has ended with one cluster, created by the second
\* probe, the first probe having found only itself.
C21_Witness ==
    /\ pc = "dedup"
    /\ Len(probes) >= 2
    /\ probes[1].candidates = {probes[1].doc_id}
    /\ Len(clusters) = 1
    /\ probes[2].doc_id \in clusters[1]

\* the indexed documents of the batch
IndexedIds == {i \in Ids : Indexed(documents[i + 1], config)}

\* two different indexed documents that are LSH candidates of each other
Candidates(i, j) ==
    /\ i # j /\ i \in IndexedIds /\ j \in IndexedIds
    /\ Collide(documents[i + 1].text.sig, documents[j + 1].text.sig)

\* a, b and c are members of exactly one cluster, the same for the three
InOneCluster(a, b, c) ==
    /\ \E k \in DOMAIN clusters : {a, b, c} \subseteq clusters[k]
    /\ \A k \in DOMAIN clusters : clusters[k] \cap {a, b, c} # {} => {a, b, c} \subseteq clusters[k]
    /\ Cardinality({k \in DOMAIN clusters : {a, b, c} \subseteq clusters[k]}) = 1

\* C22 as claimed: whenever A and B are candidates of each other and B and C are,
\* A, B and C are members of one and the same cluster, even if A and C never
\* collide.
C22_ClosedUnderReachability ==
    pc \in {"dedup", "done"} =>
        \A a, b, c \in Ids : (Candidates(a, b) /\ Candidates(b, c)) => InOneCluster(a, b, c)

\* C22 amended: the same, for the batches whose collision relation among the
\* indexed documents is transitive.
C22_ClosedWhenTransitive ==
    (pc \in {"dedup", "done"} /\ TransitiveCollisions(documents, config)) =>
        \A a, b, c \in Ids : (Candidates(a, b) /\ Candidates(b, c)) => InOneCluster(a, b, c)

\* C22 witness: the pass has ended on a batch with transitive collisions in which
\* three different documents are candidates of each other, two of them on the
\* second band only.
C22_Witness ==
    /\ pc = "dedup" /\ TransitiveCollisions(documents, config)
    /\ \E a, b, c \in Ids :
          /\ a # c /\ Candidates(a, b) /\ Candidates(b, c)
          /\ documents[a + 1].text.sig[1] # documents[b + 1].text.sig[1]
          /\ InOneCluster(a, b, c)

\* every cluster enumerated in ascending id order
AscendingOrders(cls) == [c \in DOMAIN cls |-> KeysInOrder(cls[c])]

\* C23: the kept output is determined by the ordered batch and the configuration:
\* it is the one output obtained when the members of every cluster are taken in
\* ascending ingestion order, so that among members that tie on the selection
\* score the first ingested survives, whatever the iteration order of the
\* cluster's id set.
C23_OutputDetermined ==
    pc = "done" =>
        deduplicated
            = deduplicate_documents(documents, clusters, AscendingOrders(clusters)).deduplicated

\* the document has a signature in the map, is in the index, and its signature
\* was exported to the store
FullyIndexed(i) ==
    /\ i \in DOMAIN minhashes
    /\ minhashes[i] = documents[i + 1].text.sig
    /\ \A b \in Bands(minhashes[i]) : <<b, minhashes[i][b], i>> \in lsh
    /\ i \in redis_sigs

StrategyDocs ==
    {MkDoc(MkText(s, g), Absent, ts, "") :
        s \in {x \in TextShapes : x.rawlen >= MinTextLength},
        g \in {<<1, 1>>, <<1, 2>>},
        ts \in {Absent, 1, 2}}

StrategyConfigs ==
    {[ngram_size |-> DefaultNgramSize, jamo_ngram_size |-> DefaultJamoNgramSize,
      representative_strategy |-> st] : st \in {"unset", "newest", "highest_quality"}}

InitStrategy ==
    /\ \E docs \in SeqsUpTo(StrategyDocs, MaxDocs), cfg \in StrategyConfigs :
          PipeStart(docs, cfg, TRUE, 1, docs)
    /\ SelIdle
    /\ RayIdle
    /\ MrIdle
    /\ UtilIdle

SpecStrategy == InitStrategy /\ [][Next]_vars

\* the strategy the configuration names, longest when it names none
ConfiguredStrategy ==
    IF config.representative_strategy = "unset" THEN "longest"
    ELSE config.representative_strategy

\* the member of a cluster, enumerated in this order, that a strategy selects
SelectedBy(order, strat) ==
    LET original_indices == OriginalIndices(documents, order)
        members == [j \in DOMAIN original_indices |-> documents[original_indices[j] + 1]]
    IN original_indices[select_representative_document(members, strat) + 1]

\* C25: the kept member of every cluster is the one selected by the strategy the
\* configuration names (longest when unset): the kept documents are those in no
\* cluster and, for some enumeration of each cluster, the member that strategy
\* selects.
C25_ConfiguredStrategySelects ==
    pc = "done" =>
        \E orders \in IterationOrders(clusters) :
            Kept = (Ids \ Clustered)
                      \cup {SelectedBy(orders[c], ConfiguredStrategy) : c \in DOMAIN orders}

\* C27: the kept list is an order-preserving subsequence of the input list:
\* every kept document is an input document, none is kept twice, the kept
\* documents are in their original relative order, and the input list is as it
\* was given.
C27_KeptIsSubsequence ==
    pc = "done" =>
        /\ \A j \in DOMAIN deduplicated : deduplicated[j] \in Ids
        /\ \A j, k \in DOMAIN deduplicated : j < k => deduplicated[j] < deduplicated[k]
        /\ run = 1 => documents = input_docs

\* C27 witness: a run has ended that removed a document lying between two kept
\* ones, one of them the representative of a cluster
C27_Witness ==
    /\ pc = "done" /\ run = 1
    /\ \E a, b \in Kept, i \in Ids \ Kept : a < i /\ i < b
    /\ Kept \cap Clustered # {}

\* C28: deduplication never removes a whole cluster: every cluster has a kept
\* member, and every removed document shares a cluster with a kept document.
C28_NoClusterRemovedWhole ==
    pc = "done" =>
        /\ \A c \in DOMAIN clusters : clusters[c] \cap Kept # {}
        /\ \A i \in Ids \ Kept :
              \E c \in DOMAIN clusters : i \in clusters[c] /\ clusters[c] \cap Kept # {}

\* C28 witness: a run has ended with two clusters and a removed document
C28_Witness ==
    /\ pc = "done" /\ Len(clusters) = 2
    /\ Ids \ Kept # {}
    /\ \E c \in DOMAIN clusters : Cardinality(clusters[c] \cap Kept) = 1

\* batches of documents that are all indexed, in which a text may occur twice
TwinDocs ==
    {MkDoc(MkText(s, g), Absent, Absent, "") :
        s \in {x \in TextShapes : x.rawlen >= MinTextLength}, g \in Signatures}

InitTwins ==
    /\ \E docs \in SeqsUpTo(TwinDocs, MaxTwinDocs) :
          PipeStart(docs, [ngram_size |-> DefaultNgramSize,
                           jamo_ngram_size |-> DefaultJamoNgramSize], TRUE, 1, docs)
    /\ SelIdle
    /\ RayIdle
    /\ MrIdle
    /\ UtilIdle

SpecTwins == InitTwins /\ [][Next]_vars

\* C29: of two indexed documents with identical text at most one is kept,
\* whatever other documents they collide with and in whatever order the
\* clusters are enumerated.
C29_IdenticalTextsOneKept ==
    pc = "done" =>
        \A i, j \in DOMAIN minhashes :
            (i < j /\ documents[i + 1].text = documents[j + 1].text) =>
                ~(i \in Kept /\ j \in Kept)

\* C18: when the store does not answer, build_minhash_index still returns, and
\* the clusters and the kept documents are those of a run whose store answers.
C18_StoreFailureIsNoOp ==
    ~redis_ok =>
        LET built == build_minhash_index({}, documents, config, TRUE)
            cls == find_duplicate_clusters(built.lsh, built.minhashes).clusters
        IN /\ pc # "failed"
           /\ pc \in {"dedup", "done"} => clusters = cls
           /\ pc = "done" =>
                \E orders \in IterationOrders(cls) :
                    deduplicated = deduplicate_documents(documents, cls, orders).deduplicated

----------------------------------------------------------------------------
(* select_representative_document called on a cluster *)

SelTexts == {MkText(s, <<1, 1>>) : s \in TextShapes}

\* documents with and without a token list, a timestamp, a source
SelDocs ==
    {MkDoc(t, k, Absent, "") : t \in SelTexts, k \in {Absent, Malformed, 0, 11}}
    \cup {MkDoc(t, Absent, ts, "") :
            t \in {x \in SelTexts : x.rawlen = 10}, ts \in {Malformed, 1, 2}}
    \cup {MkDoc(t, Absent, Absent, "wikipedia") : t \in {x \in SelTexts : x.rawlen = 10}}

StrategyNames == {"longest", "newest", "highest_quality", "bogus"}

PipeIdle ==
    /\ documents = <<>> /\ config \in {c \in Configs : c.ngram_size = DefaultNgramSize}
    /\ redis_ok = TRUE
    /\ lsh = {} /\ minhashes = <<>> /\ redis_sigs = {}
    /\ clusters = <<>> /\ processed = {} /\ probes = <<>>
    /\ deduplicated = <<>> /\ stats = NoStats
    /\ pc = "idle" /\ run = 1 /\ input_docs = <<>>

InitSelect ==
    /\ PipeIdle
    /\ RayIdle
    /\ MrIdle
    /\ UtilIdle
    /\ cluster_docs \in SeqsUpTo(SelDocs, MaxCluster)
    /\ strategy \in StrategyNames
    /\ rep_idx = 0
    /\ sel_pc = "call"

\* the pipeline variables while the driver runs: only config and redis_ok are read
PipeIdleStore ==
    /\ documents = <<>> /\ config \in {c \in Configs : c.ngram_size = DefaultNgramSize}
    /\ redis_ok \in BOOLEAN
    /\ lsh = {} /\ minhashes = <<>> /\ redis_sigs = {}
    /\ clusters = <<>> /\ processed = {} /\ probes = <<>>
    /\ deduplicated = <<>> /\ stats = NoStats
    /\ pc = "idle" /\ run = 1 /\ input_docs = <<>>

SelectRepresentative ==
    /\ sel_pc = "call"
    /\ rep_idx' = select_representative_document(cluster_docs, strategy)
    /\ sel_pc' = "returned"
    /\ UNCHANGED <<cluster_docs, strategy, pipeVars, rayVars, utilVars,
                   mrVars>>

NextSelect == SelectRepresentative

SpecSelect == InitSelect /\ [][NextSelect]_vars

\* C8: called with a strategy name other than longest, newest or highest_quality,
\* select_representative_document returns an index of the cluster, the one the
\* longest strategy returns.
C8_UnknownStrategyFallsBack ==
    (sel_pc = "returned" /\ strategy \notin {"longest", "newest", "highest_quality"})
        => /\ rep_idx = select_representative_document(cluster_docs, "longest")
           /\ cluster_docs # <<>> => rep_idx \in 0..(Len(cluster_docs) - 1)

\* C8 witness: an unknown strategy has returned, on a cluster where longest,
\* newest and highest_quality give three different indices.
C8_Witness ==
    /\ sel_pc = "returned" /\ strategy = "bogus"
    /\ rep_idx # select_representative_document(cluster_docs, "newest")
    /\ rep_idx # select_representative_document(cluster_docs, "highest_quality")
    /\ select_representative_document(cluster_docs, "newest")
        # select_representative_document(cluster_docs, "highest_quality")

\* a document's length as C10 states it
ClaimedLength(doc) == IF doc.tokens >= 0 THEN doc.tokens ELSE doc.text.rawlen

\* C10: with strategy longest on a cluster of two or more documents the result is
\* the smallest index whose length is maximal, the length being that of the
\* tokens list when there is one and the character length of the text otherwise.
C10_LongestIsFirstMaximal ==
    (sel_pc = "returned" /\ strategy = "longest" /\ Len(cluster_docs) >= 2) =>
        /\ rep_idx \in 0..(Len(cluster_docs) - 1)
        /\ \A j \in 0..(Len(cluster_docs) - 1) :
              /\ ClaimedLength(cluster_docs[j + 1]) <= ClaimedLength(cluster_docs[rep_idx + 1])
              /\ j < rep_idx =>
                    ClaimedLength(cluster_docs[j + 1]) < ClaimedLength(cluster_docs[rep_idx + 1])

\* C10 witness: longest has returned a document whose token list decides, ahead of
\* a later document of the same length and of a document with a longer text.
C10_Witness ==
    /\ sel_pc = "returned" /\ strategy = "longest" /\ Len(cluster_docs) >= 2
    /\ cluster_docs[rep_idx + 1].tokens >= 0
    /\ \E j, k \in 0..(Len(cluster_docs) - 1) :
          /\ j > rep_idx
          /\ ClaimedLength(cluster_docs[j + 1]) = ClaimedLength(cluster_docs[rep_idx + 1])
          /\ cluster_docs[k + 1].text.rawlen > cluster_docs[rep_idx + 1].text.rawlen

\* the indices of the cluster whose document carries a timestamp that parses
WithTimestamp ==
    {j \in 0..(Len(cluster_docs) - 1) :
        cluster_docs[j + 1].timestamp \notin {Absent, Malformed}}

\* C11: with strategy newest the result is the index of a document whose timestamp
\* is the maximum among the documents with a parseable timestamp, and a document
\* without one is never selected; when no document of the cluster has a parseable
\* timestamp the result is the one longest returns.
C11_NewestIsMaxTimestamp ==
    (sel_pc = "returned" /\ strategy = "newest" /\ cluster_docs # <<>>) =>
        IF WithTimestamp # {}
        THEN /\ rep_idx \in WithTimestamp
             /\ \A j \in WithTimestamp :
                   cluster_docs[j + 1].timestamp <= cluster_docs[rep_idx + 1].timestamp
        ELSE rep_idx = select_representative_document(cluster_docs, "longest")

\* C11 witness: newest has returned a document that is neither the first nor the
\* longest, from a cluster that also holds an older timestamp and a document
\* whose timestamp does not parse.
C11_Witness ==
    /\ sel_pc = "returned" /\ strategy = "newest"
    /\ rep_idx \in WithTimestamp /\ rep_idx > 0
    /\ rep_idx # select_representative_document(cluster_docs, "longest")
    /\ \E j \in WithTimestamp :
          cluster_docs[j + 1].timestamp < cluster_docs[rep_idx + 1].timestamp
    /\ \E j \in 0..(Len(cluster_docs) - 1) : cluster_docs[j + 1].timestamp = Malformed

----------------------------------------------------------------------------
(* dedup/minhash_utils.py: the tokenizers and estimate_jaccard_similarity called *)

InitUtils ==
    /\ PipeIdle
    /\ SelIdle
    /\ RayIdle
    /\ MrIdle
    /\ util_op \in {"tokenize_ngrams", "tokenize_jamo_ngrams", "estimate_jaccard_similarity"}
    /\ IF util_op = "tokenize_ngrams"
       THEN /\ text_words \in SeqsUpTo(Words, MaxTokens)
            /\ text_chars = <<>>
            /\ ngram_n \in 1..DefaultNgramSize
            /\ digest1 = [kind |-> "list", values |-> <<>>]
            /\ digest2 = [kind |-> "list", values |-> <<>>]
       ELSE IF util_op = "tokenize_jamo_ngrams"
       THEN /\ text_words = <<>>
            /\ text_chars \in SeqsUpTo(Chars, MaxChars)
            /\ ngram_n \in 1..DefaultNgramSize
            /\ digest1 = [kind |-> "list", values |-> <<>>]
            /\ digest2 = [kind |-> "list", values |-> <<>>]
       ELSE /\ text_words = <<>> /\ text_chars = <<>> /\ ngram_n = 1
            /\ digest1 \in Digests /\ digest2 \in Digests
    /\ ngrams = <<>>
    /\ similarity = Raises("none")
    /\ util_pc = "call"

TokenizeNgrams ==
    /\ util_pc = "call" /\ util_op = "tokenize_ngrams"
    /\ ngrams' = tokenize_ngrams(text_words, ngram_n)
    /\ util_pc' = "ended"
    /\ UNCHANGED <<util_op, text_words, text_chars, ngram_n, digest1, digest2,
                   similarity, pipeVars, selVars, rayVars,
                   mrVars>>

TokenizeJamoNgrams ==
    /\ util_pc = "call" /\ util_op = "tokenize_jamo_ngrams"
    /\ ngrams' = tokenize_jamo_ngrams(text_chars, ngram_n)
    /\ util_pc' = "ended"
    /\ UNCHANGED <<util_op, text_words, text_chars, ngram_n, digest1, digest2,
                   similarity, pipeVars, selVars, rayVars,
                   mrVars>>

EstimateJaccardSimilarity ==
    /\ util_pc = "call" /\ util_op = "estimate_jaccard_similarity"
    /\ similarity' \in estimate_jaccard_similarity(digest1, digest2)
    /\ util_pc' = "ended"
    /\ UNCHANGED <<util_op, text_words, text_chars, ngram_n, ngrams, digest1, digest2,
                   pipeVars, selVars, rayVars,
                   mrVars>>

NextUtils == TokenizeNgrams \/ TokenizeJamoNgrams \/ EstimateJaccardSimilarity

SpecUtils == InitUtils /\ [][NextUtils]_vars

\* C12: estimate_jaccard_similarity on two signatures of different lengths fails
\* with the size-mismatch error and returns no similarity value.
C12_SizeMismatchRaises ==
    (util_pc = "ended" /\ util_op = "estimate_jaccard_similarity"
        /\ Len(digest1.values) # Len(digest2.values)) =>
            /\ similarity.raised = "size_mismatch"
            /\ similarity.den = 0

\* C12 witness: the call has ended on two digests of different non-zero lengths
\* that agree on every common position.
C12_Witness ==
    /\ util_pc = "ended" /\ util_op = "estimate_jaccard_similarity"
    /\ Len(digest1.values) > Len(digest2.values) /\ Len(digest2.values) > 0
    /\ \A i \in 1..Len(digest2.values) : digest1.values[i] = digest2.values[i]
    /\ similarity.raised = "size_mismatch"

\* C13: for two signatures of equal non-zero length estimate_jaccard_similarity
\* returns the number of positions holding equal values divided by the length
\* (1.0 when the two signatures are equal).
C13_SimilarityIsMatchFraction ==
    (util_pc = "ended" /\ util_op = "estimate_jaccard_similarity"
        /\ Len(digest1.values) = Len(digest2.values) /\ Len(digest1.values) > 0) =>
            /\ similarity.raised = "none"
            /\ similarity.den # 0
            /\ similarity.num * Len(digest1.values)
                  = similarity.den * Cardinality({i \in 1..Len(digest1.values) :
                                                    digest1.values[i] = digest2.values[i]})

\* the tokens C14 speaks of: the words of the text, lower-cased
LowerCased(text) == [i \in 1..Len(text) |-> Lower(text[i])]

\* C14: for k tokens and width n tokenize_ngrams returns the k-n+1 windows of n
\* consecutive tokens in order when k >= n, and the one shingle of all k tokens
\* when k < n; no token is added, repeated or dropped.
C14_NgramsAreWindows ==
    (util_pc = "ended" /\ util_op = "tokenize_ngrams") =>
        LET tokens == LowerCased(text_words)
            k == Len(tokens)
        IN IF k >= ngram_n
           THEN ngrams = [i \in 1..(k - ngram_n + 1) |-> SubSeq(tokens, i, i + ngram_n - 1)]
           ELSE ngrams = <<tokens>>

\* the symbols a character stands for in C26: a Hangul syllable of index
\* i = code point - 0xAC00 gives 0x1100 + i/588, 0x1161 + (i%588)/28 and, when
\* i%28 is not zero, 0x11A7 + i%28; any other character gives itself
SymbolsOf(code) ==
    IF code >= 44032 /\ code <= 55203
    THEN LET i == code - 44032
         IN IF i % 28 # 0
            THEN <<4352 + (i \div 588), 4449 + ((i % 588) \div 28), 4519 + (i % 28)>>
            ELSE <<4352 + (i \div 588), 4449 + ((i % 588) \div 28)>>
    ELSE <<code>>

\* the symbol sequence of a text: the symbols of its characters, in order
RECURSIVE SymbolSequence(_)
SymbolSequence(text) ==
    IF text = <<>> THEN <<>> ELSE SymbolsOf(Head(text)) \o SymbolSequence(Tail(text))

\* C26: tokenize_jamo_ngrams maps each Hangul syllable to its lead and vowel
\* symbols, followed by the tail symbol only when the tail index is not zero,
\* maps every other character to itself, and returns the sliding windows of
\* width n over the symbol sequence, or the whole sequence as one shingle when
\* it is shorter than n.
C26_JamoNgramsAreWindows ==
    (util_pc = "ended" /\ util_op = "tokenize_jamo_ngrams") =>
        LET symbols == SymbolSequence(text_chars)
            k == Len(symbols)
        IN IF k < ngram_n
           THEN ngrams = <<symbols>>
           ELSE /\ Len(ngrams) = k - ngram_n + 1
                /\ \A i \in 1..Len(ngrams) :
                      /\ Len(ngrams[i]) = ngram_n
                      /\ \A j \in 1..ngram_n : ngrams[i][j] = symbols[i + j - 1]

\* C26 witness: the call has ended on a text holding a syllable without a tail,
\* a syllable with one and a character outside the syllable block, and has
\* returned more than one window
C26_Witness ==
    /\ util_pc = "ended" /\ util_op = "tokenize_jamo_ngrams"
    /\ \E a, b, c \in 1..Len(text_chars) :
          /\ text_chars[a] = 45208 /\ text_chars[b] = 54620 /\ text_chars[c] = 65
    /\ Len(ngrams) = 6 - ngram_n + 1 /\ ngram_n = 3
    /\ \E i \in 1..Len(ngrams) : ngrams[i] = <<4370, 4449, 4523>>

----------------------------------------------------------------------------
(* dedup/distributed_dedup.py: the Ray driver *)

\* the lines of the input file: a JSON document, a line that is blank, or a line
\* json.loads rejects
RayTexts ==
    {MkText(s, g) : s \in {x \in TextShapes : x.rawlen # 10},
                    g \in {<<1, 1>>, <<1, 2>>}}

RayDocs == {MkDoc(t, Absent, Absent, "") : t \in RayTexts}

NoDoc == MkDoc(MkText(CHOOSE x \in TextShapes : x.rawlen = 9, <<1, 1>>), Absent, Absent, "")

BlankLine == [blank |-> TRUE, json_ok |-> TRUE, doc |-> NoDoc]

MalformedLine == [blank |-> FALSE, json_ok |-> FALSE, doc |-> NoDoc]

Lines ==
    {BlankLine, MalformedLine}
        \cup {[blank |-> FALSE, json_ok |-> TRUE, doc |-> d] : d \in RayDocs}

\* [lines[i : i + chunk_size] for i in range(0, len(lines), chunk_size)]
NumChunks(ls, size) == (Len(ls) + size - 1) \div size

Chunk(ls, size, c) ==
    SubSeq(ls, (c - 1) * size + 1, IF c * size < Len(ls) THEN c * size ELSE Len(ls))

\* [json.loads(line) for line in lines if line.strip()]
RECURSIVE ParseLines(_)
ParseLines(ls) ==
    IF ls = <<>> THEN <<>>
    ELSE IF Head(ls).blank THEN ParseLines(Tail(ls))
         ELSE <<Head(ls).doc>> \o ParseLines(Tail(ls))

\* json.loads raises on no line of the chunk
CanParse(ls) == \A i \in DOMAIN ls : ls[i].blank \/ ls[i].json_ok

Pending == [state |-> "pending", minhashes |-> <<>>, deduped |-> <<>>,
            candidate_clusters |-> <<>>, stats |-> NoStats]

Raised == [Pending EXCEPT !.state = "raised"]

\* the second half of _process_chunk, on the index as it is in the store then:
\* find_duplicate_clusters and deduplicate_documents, for every iteration order
\* of the clusters
ClusterAndDeduplicate(index, docs, sigs) ==
    LET cls == find_duplicate_clusters(index, sigs).clusters
    IN {[state |-> "done",
         minhashes |-> sigs,
         deduped |-> DocsAt(docs, deduplicate_documents(docs, cls, orders).deduplicated),
         candidate_clusters |-> cls,
         stats |-> deduplicate_documents(docs, cls, orders).stats] :
            orders \in IterationOrders(cls)}

\* what _process_chunk may end with when no other worker runs meanwhile and the
\* store holds index when it starts: an exception, or the pipeline's result
_process_chunk(index, chunk_lines, cfg, store_ok) ==
    LET docs == ParseLines(chunk_lines)
        built == build_minhash_index(index, docs, cfg, store_ok)
    IN IF ~CanParse(chunk_lines) \/ ~built.ok
       THEN {Raised}
       ELSE ClusterAndDeduplicate(built.lsh, docs, built.minhashes)

StatKeys == {"original_count", "deduplicated_count", "removed_count", "duplicate_clusters"}

\* Mutant of ReduceLoop: the results are taken last chunk first
RECURSIVE ReduceLoop_LastFirst(_, _, _)
ReduceLoop_LastFirst(res, c, acc) ==
    IF c > Len(res) THEN acc
    ELSE ReduceLoop_LastFirst(res, c + 1,
            [deduped_docs |-> res[c].deduped \o acc.deduped_docs,
             stats_total |-> [key \in StatKeys |->
                                acc.stats_total[key] + res[c].stats[key]]])

\* for docs, candidates, stats in results: extend and sum
RECURSIVE ReduceLoop(_, _, _)
ReduceLoop(res, c, acc) ==
    IF c > Len(res) THEN acc
    ELSE ReduceLoop(res, c + 1,
            [deduped_docs |-> acc.deduped_docs \o res[c].deduped,
             stats_total |-> [key \in StatKeys |->
                                acc.stats_total[key] + res[c].stats[key]]])

\* stats_total["deduplication_rate"], as a fraction
TotalRate(total) ==
    IF total["original_count"] # 0
    THEN [num |-> total["removed_count"], den |-> total["original_count"]]
    ELSE [num |-> 0, den |-> 1]

Reduce(res) ==
    LET acc == ReduceLoop(res, 1, [deduped_docs |-> <<>>,
                                   stats_total |-> [key \in StatKeys |-> 0]])
    IN [deduped_docs |-> acc.deduped_docs,
        stats_total |-> [original_count |-> acc.stats_total["original_count"],
                         deduplicated_count |-> acc.stats_total["deduplicated_count"],
                         removed_count |-> acc.stats_total["removed_count"],
                         duplicate_clusters |-> acc.stats_total["duplicate_clusters"],
                         deduplication_rate |-> TotalRate(acc.stats_total)]]

InitRay ==
    /\ PipeIdleStore
    /\ SelIdle
    /\ UtilIdle
    /\ lines \in SeqsUpTo(Lines, MaxLines)
    /\ chunk_size \in {1, 2}
    /\ results = [c \in 1..NumChunks(lines, chunk_size) |-> Pending]
    /\ store = {}
    /\ deduped_docs = <<>>
    /\ stats_total = NoStats
    /\ ray_pc = "map"
    /\ MrIdle

\* the worker of chunk c parses its lines and runs build_minhash_index: every
\* worker opens the index of the same host, port and prefix
IndexChunk(c) ==
    /\ ray_pc = "map"
    /\ results[c].state = "pending"
    /\ LET chunk_lines == Chunk(lines, chunk_size, c)
           built == build_minhash_index(store, ParseLines(chunk_lines), config, redis_ok)
       IN IF ~CanParse(chunk_lines)
          THEN /\ results' = [results EXCEPT ![c] = Raised]
               /\ UNCHANGED store
          ELSE /\ store' = built.lsh
               /\ results' = [results EXCEPT ![c] =
                     IF built.ok
                     THEN [Pending EXCEPT !.state = "indexed", !.minhashes = built.minhashes]
                     ELSE Raised]
    /\ UNCHANGED <<lines, chunk_size, deduped_docs, stats_total, ray_pc,
                   pipeVars, selVars, utilVars,
                   mrVars>>

\* the worker of chunk c runs find_duplicate_clusters and deduplicate_documents
\* and returns
ClusterChunk(c) ==
    /\ ray_pc = "map"
    /\ results[c].state = "indexed"
    /\ \E r \in ClusterAndDeduplicate(store, ParseLines(Chunk(lines, chunk_size, c)),
                                     results[c].minhashes) :
          results' = [results EXCEPT ![c] = r]
    /\ UNCHANGED <<lines, chunk_size, store, deduped_docs, stats_total, ray_pc,
                   pipeVars, selVars, utilVars,
                   mrVars>>

\* ray.get(futures) raises the exception of a task that raised
GatherRaises ==
    /\ ray_pc = "map"
    /\ \E c \in DOMAIN results : results[c].state = "raised"
    /\ ray_pc' = "failed"
    /\ UNCHANGED <<lines, chunk_size, results, store, deduped_docs, stats_total,
                   pipeVars, selVars, utilVars,
                   mrVars>>

\* ray.get(futures) returns once every task has returned; run_dedup_ray then
\* reduces the results and writes the output files
GatherAndWrite ==
    /\ ray_pc = "map"
    /\ \A c \in DOMAIN results : results[c].state = "done"
    /\ deduped_docs' = Reduce(results).deduped_docs
    /\ stats_total' = Reduce(results).stats_total
    /\ ray_pc' = "written"
    /\ UNCHANGED <<lines, chunk_size, results, store, pipeVars, selVars, utilVars,
                   mrVars>>

\* the run is aborted while ray.get waits: the driver ends before it has opened
\* an output file
Abort ==
    /\ ray_pc = "map"
    /\ ray_pc' = "aborted"
    /\ UNCHANGED <<lines, chunk_size, results, store, deduped_docs, stats_total,
                   pipeVars, selVars, utilVars,
                   mrVars>>

NextRay ==
    \/ \E c \in DOMAIN results : IndexChunk(c)
    \/ \E c \in DOMAIN results : ClusterChunk(c)
    \/ GatherRaises
    \/ GatherAndWrite
    \/ Abort

SpecRay == InitRay /\ [][NextRay]_vars

\* the documents of chunk c
ChunkDocs(c) == ParseLines(Chunk(lines, chunk_size, c))

ZeroStats(st) ==
    /\ st.original_count = 0 /\ st.deduplicated_count = 0
    /\ st.removed_count = 0 /\ st.duplicate_clusters = 0
    /\ st.deduplication_rate.num = 0 /\ st.deduplication_rate.den # 0

\* C7: on an empty batch the pipeline does not fail, and returns an empty kept
\* list and stats with every count 0 and deduplication_rate 0; the reducer
\* reports rate 0 when the total original_count is 0.
C7_EmptyInput ==
    /\ \A c \in DOMAIN results :
          (results[c].state \in {"done", "raised"} /\ ChunkDocs(c) = <<>>) =>
              /\ results[c].state = "done"
              /\ results[c].deduped = <<>>
              /\ ZeroStats(results[c].stats)
    /\ (ray_pc \in {"written", "failed"} /\ \A c \in DOMAIN results : ChunkDocs(c) = <<>>) =>
          ray_pc = "written"
    /\ (ray_pc = "written" /\ stats_total.original_count = 0) =>
          /\ stats_total.deduplication_rate.num = 0
          /\ stats_total.deduplication_rate.den # 0
          /\ deduped_docs = <<>>

\* C7 witness: the driver has written its output for an input of blank lines
\* only, in more than one chunk, while the store does not answer.
C7_Witness ==
    /\ ray_pc = "written"
    /\ Len(results) >= 2
    /\ \A c \in DOMAIN results : ChunkDocs(c) = <<>> /\ results[c].state = "done"
    /\ stats_total.original_count = 0
    /\ ~redis_ok

\* the kept documents of chunks 1..n, chunk after chunk
RECURSIVE ConcatKept(_)
ConcatKept(n) == IF n = 0 THEN <<>> ELSE ConcatKept(n - 1) \o results[n].deduped

\* the sum over chunks 1..n of one count of the chunks' stats
RECURSIVE SumStat(_, _)
SumStat(key, n) == IF n = 0 THEN 0 ELSE SumStat(key, n - 1) + results[n].stats[key]

\* C15: the driver's kept output is the concatenation, in chunk order, of the kept
\* documents the chunks' workers returned; each of the four total counts is the
\* sum of the chunks' counts, and the total rate is total removed_count over total
\* original_count.
C15_ReduceConcatenatesAndSums ==
    ray_pc = "written" =>
        /\ deduped_docs = ConcatKept(Len(results))
        /\ stats_total.original_count = SumStat("original_count", Len(results))
        /\ stats_total.deduplicated_count = SumStat("deduplicated_count", Len(results))
        /\ stats_total.removed_count = SumStat("removed_count", Len(results))
        /\ stats_total.duplicate_clusters = SumStat("duplicate_clusters", Len(results))
        /\ stats_total.original_count > 0 =>
              /\ stats_total.deduplication_rate.den # 0
              /\ stats_total.deduplication_rate.num * stats_total.original_count
                    = stats_total.removed_count * stats_total.deduplication_rate.den

\* C15 witness: the driver has written the output of two chunks that kept
\* different, non-empty lists, one of them after removing a document.
C15_Witness ==
    /\ ray_pc = "written"
    /\ Len(results) >= 2
    /\ results[1].deduped # <<>> /\ results[2].deduped # <<>>
    /\ results[1].deduped # results[2].deduped
    /\ stats_total.removed_count > 0
    /\ stats_total.duplicate_clusters > 0

\* what the pipeline gives for chunk c when it runs alone, on an empty index
Alone(c) == _process_chunk({}, Chunk(lines, chunk_size, c), config, redis_ok)

\* C16: for every interleaving of the workers, what a chunk's worker ends with
\* (its clusters, its kept documents, or its exception) is what the pipeline
\* gives for that chunk run alone: no document is clustered or removed because
\* of a document, an index entry or an id of another chunk.
C16_ChunkIsolation ==
    \A c \in DOMAIN results :
        results[c].state \in {"done", "raised"} => results[c] \in Alone(c)

\* a chunk whose worker returned after removing a document that the chunk run
\* alone keeps in no iteration order
RemovedByForeignEntry(c) ==
    /\ results[c].state = "done"
    /\ \A r \in Alone(c) : r.state = "done" /\ Len(r.deduped) > Len(results[c].deduped)

\* the kept documents of those of the chunks 1..n whose worker returned
RECURSIVE ConcatSucceeded(_)
ConcatSucceeded(n) ==
    IF n = 0 THEN <<>>
    ELSE ConcatSucceeded(n - 1)
            \o (IF results[n].state = "done" THEN results[n].deduped ELSE <<>>)

\* C17: when the worker of a chunk has failed and every other worker has
\* returned, the run still emits its output, which is the kept documents of the
\* chunks that succeeded, without those of the failed chunk.
C17_WorkerFailureIsChunkLocal ==
    (/\ ray_pc \in {"failed", "written"}
     /\ \E c \in DOMAIN results : results[c].state = "raised"
     /\ \A c \in DOMAIN results : results[c].state \in {"done", "raised"}) =>
        /\ ray_pc = "written"
        /\ deduped_docs = ConcatSucceeded(Len(results))

\* C19: when the run is aborted after some chunks have completed and before the
\* others have started, the output holds the kept documents of the completed
\* chunks, in chunk order, and nothing else.
C19_AbortKeepsCompletedOutput ==
    (/\ ray_pc = "aborted"
     /\ \E c \in DOMAIN results : results[c].state = "done"
     /\ \A c \in DOMAIN results : results[c].state \in {"done", "pending"}) =>
        deduped_docs = ConcatSucceeded(Len(results))

----------------------------------------------------------------------------
(* dedup/mapreduce_dedup_driver.py: the MapReduce driver *)

\* a task of pool.map that has not returned; _process_chunk returns deduped only
MrPending == [state |-> "pending", minhashes |-> <<>>, deduped |-> <<>>]

MrRaised == [MrPending EXCEPT !.state = "raised"]

\* the worker of chunk c parses its lines and runs build_minhash_index on the
\* index of the configured host, port and prefix
MrIndexChunk(c) ==
    /\ mr_pc = "map"
    /\ mr_results[c].state = "pending"
    /\ LET chunk_lines == Chunk(lines, chunk_size, c)
           built == build_minhash_index(mr_store, ParseLines(chunk_lines), config, redis_ok)
       IN IF ~CanParse(chunk_lines)
          THEN /\ mr_results' = [mr_results EXCEPT ![c] = MrRaised]
               /\ UNCHANGED mr_store
          ELSE /\ mr_store' = built.lsh
               /\ mr_results' = [mr_results EXCEPT ![c] =
                     IF built.ok
                     THEN [MrPending EXCEPT !.state = "indexed", !.minhashes = built.minhashes]
                     ELSE MrRaised]
    /\ UNCHANGED <<mr_deduped_docs, mr_pc, pipeVars, selVars, rayVars, utilVars>>

\* the worker of chunk c runs find_duplicate_clusters and deduplicate_documents
\* and returns the kept documents
MrClusterChunk(c) ==
    /\ mr_pc = "map"
    /\ mr_results[c].state = "indexed"
    /\ \E r \in ClusterAndDeduplicate(mr_store, ParseLines(Chunk(lines, chunk_size, c)),
                                     mr_results[c].minhashes) :
          mr_results' = [mr_results EXCEPT ![c] =
              [state |-> "done", minhashes |-> r.minhashes, deduped |-> r.deduped]]
    /\ UNCHANGED <<mr_store, mr_deduped_docs, mr_pc, pipeVars, selVars, rayVars, utilVars>>

\* pool.map raises the exception of a task once every task has ended
MrMapRaises ==
    /\ mr_pc = "map"
    /\ \A c \in DOMAIN mr_results : mr_results[c].state \in {"done", "raised"}
    /\ \E c \in DOMAIN mr_results : mr_results[c].state = "raised"
    /\ mr_pc' = "failed"
    /\ UNCHANGED <<mr_results, mr_store, mr_deduped_docs, pipeVars, selVars, rayVars,
                   utilVars>>

\* [doc for part in results for doc in part]
RECURSIVE Flatten(_)
Flatten(parts) ==
    IF parts = <<>> THEN <<>> ELSE Head(parts).deduped \o Flatten(Tail(parts))

\* pool.map returns the results in the order of the chunks; run_dedup_mapreduce
\* writes their documents to the output file
MrMapAndWrite ==
    /\ mr_pc = "map"
    /\ \A c \in DOMAIN mr_results : mr_results[c].state = "done"
    /\ mr_deduped_docs' = Flatten(mr_results)
    /\ mr_pc' = "written"
    /\ UNCHANGED <<mr_results, mr_store, pipeVars, selVars, rayVars, utilVars>>

NextMapReduce ==
    \/ \E c \in DOMAIN mr_results : MrIndexChunk(c)
    \/ \E c \in DOMAIN mr_results : MrClusterChunk(c)
    \/ MrMapRaises
    \/ MrMapAndWrite

----------------------------------------------------------------------------
(* The same lines given to the pipeline and to both drivers *)

\* the lines of the input file: documents and blank lines
DriverLines ==
    {BlankLine} \cup {[blank |-> FALSE, json_ok |-> TRUE, doc |-> d] : d \in RayDocs}

\* the pipeline, the Ray driver and the MapReduce driver are each started on the
\* same lines with the same configuration, each on an index that holds nothing
InitDrivers ==
    /\ lines \in SeqsUpTo(DriverLines, MaxLines)
    /\ chunk_size \in 1..MaxLines
    /\ PipeStart(ParseLines(lines),
                 [ngram_size |-> DefaultNgramSize, jamo_ngram_size |-> DefaultJamoNgramSize],
                 TRUE, 1, ParseLines(lines))
    /\ SelIdle
    /\ UtilIdle
    /\ results = [c \in 1..NumChunks(lines, chunk_size) |-> Pending]
    /\ store = {}
    /\ deduped_docs = <<>>
    /\ stats_total = NoStats
    /\ ray_pc = "map"
    /\ mr_results = [c \in 1..NumChunks(lines, chunk_size) |-> MrPending]
    /\ mr_store = {}
    /\ mr_deduped_docs = <<>>
    /\ mr_pc = "map"

\* the three runs one after another: the pipeline, then the Ray driver, then
\* the MapReduce driver
NextDrivers ==
    \/ BuildMinhashIndex
    \/ FindDuplicateClusters
    \/ DeduplicateDocuments
    \/ pc = "done" /\ \E c \in DOMAIN results : IndexChunk(c)
    \/ pc = "done" /\ \E c \in DOMAIN results : ClusterChunk(c)
    \/ pc = "done" /\ GatherRaises
    \/ pc = "done" /\ GatherAndWrite
    \/ ray_pc \in {"written", "failed"} /\ NextMapReduce

SpecDrivers == InitDrivers /\ [][NextDrivers]_vars

\* C30: for the same lines, configuration and chunk size the Ray driver and the
\* MapReduce driver write the same sequence of kept documents, and with a chunk
\* size of at least the number of lines both write exactly the documents the
\* single-batch pipeline keeps.
C30_DriversAgree ==
    (pc = "done" /\ ray_pc = "written" /\ mr_pc = "written") =>
        /\ mr_deduped_docs = deduped_docs
        /\ chunk_size >= Len(lines) =>
              /\ deduped_docs = DocsAt(documents, deduplicated)
              /\ mr_deduped_docs = DocsAt(documents, deduplicated)

====
